---- MODULE Spec2Model ----
(***************************************************************************)
(* A model of the NBA standings bot: the ESPN-JSON pipeline of             *)
(* nba_standings_bot.py (fetch, conference partition, rank and trend,      *)
(* format, send, exit code), the bounded fetch retry of standings_bot.py   *)
(* and of nba_selftest.py.                                                 *)
(*                                                                         *)
(* Conventions.  A Python str is a sequence of code points, so that        *)
(* lower(), isalnum(), substring tests and lexicographic comparison are    *)
(* computed and not assumed.  Optional[x] is <<>> (None) or <<x>>.  A      *)
(* float is an exact fraction [n, d] with d > 0: all floats of the model   *)
(* are quotients of small integers, for which float comparison agrees      *)
(* with comparison of the fractions.                                       *)
(***************************************************************************)
EXTENDS Integers, Sequences, FiniteSets, TLC

\* ------------------------------------------------------------------------
\* Python values
\* ------------------------------------------------------------------------

None == <<>>

Some(x) == <<x>>

Frac(n, d) == [n |-> n, d |-> d]

FracLess(a, b) == a.n * b.d < b.n * a.d

FracEq(a, b) == a.n * b.d = b.n * a.d

\* str.lower() on ASCII
Lower(s) == [i \in 1..Len(s) |-> IF s[i] \in 65..90 THEN s[i] + 32 ELSE s[i]]

\* str.isalnum() on ASCII
IsAlnum(c) == c \in 48..57 \/ c \in 65..90 \/ c \in 97..122

\* "sub in s"
Contains(s, sub) ==
    \E i \in 0..(Len(s) - Len(sub)) : SubSeq(s, i + 1, i + Len(sub)) = sub

\* s < t for Python str (code point order, a proper prefix is smaller)
StrLess(s, t) ==
    \E i \in 1..(Len(t)) :
        /\ i <= Len(s) + 1
        /\ \A j \in 1..(i - 1) : s[j] = t[j]
        /\ (i = Len(s) + 1 \/ s[i] < t[i])

\* "".join(ch for ch in name.lower() if ch.isalnum())
norm_team_key(name) == SelectSeq(Lower(name), IsAlnum)

\* pct(w, l): w / (w + l), or 0.0 without games
pct(w, l) == IF w + l > 0 THEN Frac(w, w + l) ELSE Frac(0, 1)

\* ------------------------------------------------------------------------
\* Ranking order: key (-pct, -w, team), compared as Python compares tuples
\* ------------------------------------------------------------------------

\* The key with wins ascending, (-pct, w, team): a variant the order
\* property must tell from the code's key
KeyLessFlipped(a, b) ==
    \/ FracLess(b.pct, a.pct)
    \/ /\ FracEq(a.pct, b.pct)
       /\ \/ a.w < b.w
          \/ a.w = b.w /\ StrLess(a.team, b.team)

\* key(a) < key(b) for the key (-pct, -w, team)
KeyLess(a, b) ==
    \/ FracLess(b.pct, a.pct)
    \/ /\ FracEq(a.pct, b.pct)
       /\ \/ a.w > b.w
          \/ a.w = b.w /\ StrLess(a.team, b.team)

\* list.sort / sorted are stable: x goes behind every element that is not
\* greater than it.
InsertRow(sorted, x) ==
    LET n == Cardinality({i \in 1..Len(sorted) : ~KeyLess(x, sorted[i])})
    IN  SubSeq(sorted, 1, n) \o <<x>> \o SubSeq(sorted, n + 1, Len(sorted))

RECURSIVE SortRows(_)
SortRows(rows) ==
    IF rows = <<>> THEN <<>>
    ELSE InsertRow(SortRows(SubSeq(rows, 1, Len(rows) - 1)), rows[Len(rows)])

\* ------------------------------------------------------------------------
\* _stats_to_map and _entries_to_rows
\* ------------------------------------------------------------------------

\* A stat value: [k |-> "int", v], [k |-> "float", f] or [k |-> "str"], a
\* string that neither int() nor float() parses.
IntVal(v) == [k |-> "int", v |-> v]

FloatVal(n, d) == [k |-> "float", f |-> Frac(n, d)]

StrVal == [k |-> "str"]

\* m[name] = value for every stat with a name; a later stat overwrites an
\* earlier one of the same name.
_stats_to_map(stats_list) ==
    LET named == {i \in 1..Len(stats_list) : stats_list[i].name # ""}
        last(nm) == CHOOSE i \in named :
                        /\ stats_list[i].name = nm
                        /\ \A j \in named : stats_list[j].name = nm => j <= i
    IN  [nm \in {stats_list[i].name : i \in named} |-> stats_list[last(nm)].value]

\* stats.get(key): Optional
StatGet(m, key) == IF key \in DOMAIN m THEN Some(m[key]) ELSE None

\* "x or 0" keeps x unless it is None or a zero
Truthy(o) ==
    /\ o # None
    /\ ~(o[1].k = "int" /\ o[1].v = 0)
    /\ ~(o[1].k = "float" /\ o[1].f.n = 0)

\* int(x) raises ValueError on a string that is no number
IntRaises(o) == Truthy(o) /\ o[1].k = "str"

\* int(stats.get(key) or 0); int() truncates a float toward zero
IntOr0(o) ==
    IF ~Truthy(o) \/ o[1].k = "str" THEN 0
    ELSE IF o[1].k = "int" THEN o[1].v
    ELSE o[1].f.n \div o[1].f.d

\* The team object of an entry: e.get("team") or {}
NoTeam == [displayName |-> <<>>, name |-> <<>>, abbreviation |-> <<>>,
           shortDisplayName |-> <<>>, group |-> <<>>]

TeamOf(e) == IF e.team = None THEN NoTeam ELSE e.team[1]

\* a or b for str
StrOr(a, b) == IF a # <<>> THEN a ELSE b

EntryRaises(e) ==
    LET stats == _stats_to_map(IF e.stats = None THEN <<>> ELSE e.stats[1])
    IN  IntRaises(StatGet(stats, "wins")) \/ IntRaises(StatGet(stats, "losses"))

\* One pass of the loop body of _entries_to_rows (lines 94-106).  A row
\* dict is a record; id is the identity of the dict (the position of its
\* entry in the input); delta_places is None until attach_trend sets it,
\* which is what r.get("delta_places") reads.
EntryToRow(e) ==
    LET team    == TeamOf(e)
        display == StrOr(team.displayName, team.name)
        abbr    == StrOr(team.abbreviation, StrOr(team.shortDisplayName, display))
        stats   == _stats_to_map(IF e.stats = None THEN <<>> ELSE e.stats[1])
        w       == IntOr0(StatGet(stats, "wins"))
        l       == IntOr0(StatGet(stats, "losses"))
        wpo     == StatGet(stats, "winPercent")
        wp      == IF wpo = None \/ wpo[1].k = "str" THEN pct(w, l)
                   ELSE IF wpo[1].k = "int" THEN Frac(wpo[1].v, 1)
                   ELSE wpo[1].f
    IN  [id |-> e.id, team |-> display, abbr |-> abbr, w |-> w, l |-> l,
         pct |-> wp, rank |-> 0, delta_places |-> None]

NumberRows(rows) == [i \in 1..Len(rows) |-> [rows[i] EXCEPT !.rank = i]]

\* _entries_to_rows(entries) when no entry raises
_entries_to_rows(entries) ==
    NumberRows(SortRows([i \in 1..Len(entries) |-> EntryToRow(entries[i])]))

EntriesRaise(entries) == \E i \in 1..Len(entries) : EntryRaises(entries[i])

\* ------------------------------------------------------------------------
\* attach_trend, arrow, fmt_table
\* ------------------------------------------------------------------------

TrendKey(row) == norm_team_key(row.team)

\* The delta with its sign turned, i - y_rank: a variant the delta property
\* must tell from line 273
DeltaFlipped(y_rank, i) == i - y_rank

\* Line 273: y_rank - i
Delta(y_rank, i) == y_rank - i

\* attach_trend without line 270: the rows keep the ranks they came with
attach_trend_keeps_rank(current_rows, yesterday_positions) ==
    LET ranked == SortRows(current_rows)
    IN  [i \in 1..Len(ranked) |->
            LET key == TrendKey(ranked[i])
            IN  [ranked[i] EXCEPT
                    !.delta_places =
                        IF key \in DOMAIN yesterday_positions
                        THEN Some(Delta(yesterday_positions[key], i))
                        ELSE None]]

attach_trend(current_rows, yesterday_positions) ==
    LET ranked == SortRows(current_rows)
    IN  [i \in 1..Len(ranked) |->
            LET key == TrendKey(ranked[i])
            IN  [ranked[i] EXCEPT
                    !.rank = i,
                    !.delta_places =
                        IF key \in DOMAIN yesterday_positions
                        THEN Some(Delta(yesterday_positions[key], i))
                        ELSE None]]

Abs(x) == IF x < 0 THEN -x ELSE x

\* The glyph is the literal text and, for a move, the number printed
\* behind it.
arrow(delta_places) ==
    IF delta_places = None THEN <<"white-circle=">>
    ELSE IF delta_places[1] > 0 THEN <<"green-up+", delta_places[1]>>
    ELSE IF delta_places[1] < 0 THEN <<"red-down", Abs(delta_places[1])>>
    ELSE <<"white-circle=">>

\* f"{x:.3f}" as thousandths, rounded to nearest (ties to even)
Fmt3(f) ==
    LET q == (1000 * f.n) \div f.d
        r == (1000 * f.n) % f.d
    IN  IF 2 * r > f.d \/ (2 * r = f.d /\ q % 2 = 1) THEN q + 1 ELSE q

\* One line of fmt_table per row, in the order of the rows
fmt_table(rows) ==
    [i \in 1..Len(rows) |->
        [rank  |-> rows[i].rank,
         arrow |-> arrow(rows[i].delta_places),
         abbr  |-> StrOr(rows[i].abbr, rows[i].team),
         w     |-> rows[i].w,
         l     |-> rows[i].l,
         pct   |-> Fmt3(rows[i].pct)]]

\* ------------------------------------------------------------------------
\* State
\* ------------------------------------------------------------------------

\* The rank and trend engine on its own
VARIABLES
    rpc,                  \* "start", "rows", "ranked", "table" or "raised"
    entries,              \* the argument of _entries_to_rows
    rows,                 \* its result
    yesterday_positions,  \* the baseline map given to attach_trend
    ranked,               \* the result of attach_trend
    table                 \* the lines of fmt_table

varsRank == <<rpc, entries, rows, yesterday_positions, ranked, table>>

\* The run of nba_standings_bot.py
VARIABLES
    pc,          \* where the run is: "get", "step1", "step2", "step3",
                 \* "step4", "bbr", "trend", "fmt", "send", "exit"
    cand,        \* the index of the candidate URL _get_json is asked for
    total,       \* what is left of Retry(total=6) for the POST under way
    data,        \* the document the first answering candidate returned
    idx,         \* the loop index of steps 1 and 2
    east_rows,   \* the local east_rows of fetch_espn_standings_json
    west_rows,   \* the local west_rows
    prev,        \* the result of fetch_bbr_positions_yesterday
    east,        \* attach_trend(east_now, prev["east"])
    west,        \* attach_trend(west_now, prev["west"])
    msg,         \* the two tables of build_message
    creds,       \* None until send_telegram tests BOT_TOKEN and CHAT_ID, which
                 \* are read at import and never change; then whether both are set
    post_calls,  \* calls of SESSION.post
    posts,       \* sendMessage requests put on the wire
    sent,        \* "no", "skipped", "ok" or "failed"
    out,         \* "OK" was printed
    got_data,    \* a candidate URL answered with data (kept for the exit)
    exit_code    \* None while running

varsRun == <<pc, cand, total, data, idx, east_rows, west_rows, prev, east,
             west, msg, creds, post_calls, posts, sent, out, got_data,
             exit_code>>

\* The fetch retry of standings_bot.py and nba_selftest.py
VARIABLES
    prog,       \* "standings_bot" or "selftest"
    qpc,        \* "main", "fetch", "sleep", "giveup", "message", "send", "done"
    env,        \* TG_TOKEN set, TG_CHAT_ID set, it starts with -100, DRY_RUN
    i,          \* the loop variable of the retry loop
    last_err,   \* None or the exception of the last failed attempt
    log,        \* what every attempt so far came to
    pauses,     \* the time.sleep calls so far
    sends,      \* calls of bot.send_message
    reported,   \* the error the final message names
    status      \* the exit status of the process, None while it runs

varsRetry == <<prog, qpc, env, i, last_err, log, pauses, sends, reported, status>>

vars == <<varsRank, varsRun, varsRetry>>

\* ------------------------------------------------------------------------
\* The rank and trend engine on its own: _entries_to_rows, attach_trend and
\* fmt_table applied to every list of at most MaxRows entries
\* ------------------------------------------------------------------------

MaxRows == 3

\* "Bos", "Ny K", "Den" and the codes "BOS", "NYK"
sBos == <<66, 111, 115>>

sNyK == <<78, 121, 32, 75>>

sDen == <<68, 101, 110>>

aBOS == <<66, 79, 83>>

aNYK == <<78, 89, 75>>

Team(display, abbr) ==
    Some([displayName |-> display, name |-> <<>>, abbreviation |-> abbr,
          shortDisplayName |-> <<>>, group |-> <<>>])

Stat(name, value) == [name |-> name, value |-> value]

WL(w, l) == Some(<<Stat("wins", IntVal(w)), Stat("losses", IntVal(l))>>)

\* The entries the lists are made of: a win-loss order, ties on pct, on pct
\* and wins, on the whole key, a team only known by a short name, an
\* upstream winPercent (a float, a string), a nameless stat, a stat given
\* twice, wins given as a float, an entry without a team object, one
\* without stats, one whose wins are no number.
EntryShapes ==
    { [team |-> Team(sBos, aBOS), stats |-> WL(2, 0)],
      [team |-> Team(sBos, aBOS), stats |-> WL(1, 1)],
      [team |-> Team(sNyK, aNYK), stats |-> WL(1, 1)],
      [team |-> Team(sNyK, aNYK), stats |-> WL(2, 2)],
      [team |-> Some([NoTeam EXCEPT !.name = sDen, !.shortDisplayName = sDen]),
       stats |-> Some(<<Stat("wins", FloatVal(3, 2)), Stat("", IntVal(9)),
                        Stat("losses", IntVal(2)), Stat("losses", IntVal(1)),
                        Stat("winPercent", StrVal)>>)],
      [team |-> Team(sDen, <<>>),
       stats |-> Some(<<Stat("wins", IntVal(0)), Stat("losses", IntVal(2)),
                        Stat("winPercent", FloatVal(1, 2))>>)],
      [team |-> None, stats |-> WL(1, 1)],
      [team |-> Team(sDen, <<>>), stats |-> None],
      [team |-> Team(sBos, aBOS),
       stats |-> Some(<<Stat("wins", StrVal), Stat("losses", IntVal(1))>>)] }

EntryLists ==
    UNION { [1..n -> EntryShapes] : n \in 0..MaxRows }

WithIds(shapes) ==
    [k \in 1..Len(shapes) |->
        [id |-> k, team |-> shapes[k].team, stats |-> shapes[k].stats]]

\* Baseline maps: none, keyed by norm_team_key of the names (what
\* fetch_bbr_positions_yesterday builds), keyed by the abbreviations.
Baselines ==
    { [k \in {} |-> 0],
      [k \in {norm_team_key(sBos), norm_team_key(sNyK)} |->
          IF k = norm_team_key(sBos) THEN 2 ELSE 1],
      [k \in {norm_team_key(sNyK)} |-> 1],
      [k \in {aBOS, aNYK} |-> IF k = aBOS THEN 2 ELSE 1] }

InitRank ==
    /\ rpc = "start"
    /\ entries \in {WithIds(s) : s \in EntryLists}
    /\ rows = <<>>
    /\ yesterday_positions = [k \in {} |-> 0]
    /\ ranked = <<>>
    /\ table = <<>>

EntriesToRows ==
    /\ rpc = "start"
    /\ ~EntriesRaise(entries)
    /\ rows' = _entries_to_rows(entries)
    /\ rpc' = "rows"
    /\ UNCHANGED <<entries, yesterday_positions, ranked, table>>
    /\ UNCHANGED <<varsRun, varsRetry>>

EntriesToRowsRaises ==
    /\ rpc = "start"
    /\ EntriesRaise(entries)
    /\ rpc' = "raised"
    /\ UNCHANGED <<entries, rows, yesterday_positions, ranked, table>>
    /\ UNCHANGED <<varsRun, varsRetry>>

AttachTrend ==
    /\ rpc = "rows"
    /\ \E y \in Baselines :
        /\ yesterday_positions' = y
        /\ ranked' = attach_trend(rows, y)
    /\ rpc' = "ranked"
    /\ UNCHANGED <<entries, rows, table>>
    /\ UNCHANGED <<varsRun, varsRetry>>

FmtTable ==
    /\ rpc = "ranked"
    /\ table' = fmt_table(ranked)
    /\ rpc' = "table"
    /\ UNCHANGED <<entries, rows, yesterday_positions, ranked>>
    /\ UNCHANGED <<varsRun, varsRetry>>

NextRank ==
    \/ EntriesToRows
    \/ EntriesToRowsRaises
    \/ AttachTrend
    \/ FmtTable


\* ------------------------------------------------------------------------
\* The run of nba_standings_bot.py
\* ------------------------------------------------------------------------

\* Retry(total=6, ...)
RetryTotal == 6

\* rows_all[:15], rows_all[15:30] behind len(rows_all) >= 30
HalfSize == 15

SplitMin == 30

\* len(candidates)
NumCandidates == 2

MaxNodes == 2

sEast == <<101, 97, 115, 116>>

sWest == <<119, 101, 115, 116>>

\* "Eastern Conference", "Western Conference", "Southeast", "East"
sEasternConference ==
    <<69, 97, 115, 116, 101, 114, 110, 32, 67, 111, 110, 102, 101, 114, 101, 110, 99, 101>>

sWesternConference ==
    <<87, 101, 115, 116, 101, 114, 110, 32, 67, 111, 110, 102, 101, 114, 101, 110, 99, 101>>

sSoutheast == <<83, 111, 117, 116, 104, 101, 97, 115, 116>>

sShortEast == <<69, 97, 115, 116>>

\* A standings node of the answer: its name and shortName, how deep it
\* lies under data["children"] (1 a child, 2 a grandchild, 3 deeper, which
\* only the traversal of _gather_standings_nodes reaches) and how many
\* entries its standings hold.
NodeShape(name, short, depth, n) ==
    [name |-> name, shortName |-> short, depth |-> depth, n |-> n]

NodeShapes ==
    { NodeShape(<<>>, <<>>, 1, HalfSize),
      NodeShape(<<>>, <<>>, 1, HalfSize - 1),
      NodeShape(<<>>, <<>>, 2, 1),
      NodeShape(sEasternConference, <<>>, 1, HalfSize),
      NodeShape(sWesternConference, <<>>, 1, HalfSize),
      NodeShape(sSoutheast, <<>>, 2, 1),
      NodeShape(<<>>, sShortEast, 1, HalfSize),
      NodeShape(sWesternConference, <<>>, 3, 1) }

\* What the entries of a document look like: whether each team carries a
\* group named after its conference, whether the records differ or all
\* entries are equal in pct, wins and name, and whether the nodes hang
\* under the key "children".
DocOption(tagged, flat, children) ==
    [tagged |-> tagged, flat |-> flat, children |-> children]

DocOptions ==
    { DocOption(FALSE, FALSE, TRUE), DocOption(FALSE, TRUE, TRUE),
      DocOption(TRUE, FALSE, TRUE), DocOption(FALSE, FALSE, FALSE) }

\* "T07" for team 7
TeamName(id) == <<84, 48 + (id \div 10), 48 + (id % 10)>>

DocEntry(id, opt) ==
    [id    |-> id,
     team  |-> Some([displayName |-> IF opt.flat THEN TeamName(0) ELSE TeamName(id),
                     name |-> <<>>, abbreviation |-> <<>>, shortDisplayName |-> <<>>,
                     group |-> IF ~opt.tagged THEN <<>>
                               ELSE IF id % 2 = 1 THEN sEasternConference
                               ELSE sWesternConference]),
     stats |-> IF opt.flat THEN WL(1, 1) ELSE WL((3 * id) % 4, id % 3)]

RECURSIVE Offset(_, _)
Offset(shapes, k) == IF k <= 1 THEN 0 ELSE Offset(shapes, k - 1) + shapes[k - 1].n

\* The nodes of a document in the order of the depth-first traversal, the
\* entries numbered through
MakeDoc(shapes, opt) ==
    [children |-> opt.children,
     nodes |-> [k \in 1..Len(shapes) |->
                  [name |-> shapes[k].name, shortName |-> shapes[k].shortName,
                   depth |-> shapes[k].depth,
                   entries |-> [m \in 1..shapes[k].n |->
                                   DocEntry(Offset(shapes, k) + m, opt)]]]]

Docs ==
    { MakeDoc(sh, opt) :
        sh \in UNION { [1..n -> NodeShapes] : n \in 0..MaxNodes },
        opt \in DocOptions }

\* _gather_standings_nodes: the nodes whose standings hold entries
_gather_standings_nodes(doc) ==
    SelectSeq(doc.nodes, LAMBDA n : n.entries # <<>>)

RECURSIVE Flatten(_)
Flatten(lists) ==
    IF lists = <<>> THEN <<>> ELSE Head(lists) \o Flatten(Tail(lists))

\* all_entries of steps 3 and 4
AllEntries(nodes) == Flatten([k \in 1..Len(nodes) |-> nodes[k].entries])

\* push_by_name: the pair of rows after the call
push_by_name(name, ents, er, wr) ==
    LET lname == Lower(name)
        rws   == _entries_to_rows(ents)
    IN  IF Contains(lname, sEast) THEN <<rws, wr>>
        ELSE IF Contains(lname, sWest) THEN <<er, rws>>
        ELSE <<er, wr>>

\* n.get("name") or n.get("shortName") or n.get("abbreviation") or ""
Step1Name(n) == StrOr(n.name, n.shortName)

\* The nodes step 2 walks: data["children"] and their children
Step2Nodes(doc) ==
    IF doc.children THEN SelectSeq(doc.nodes, LAMBDA n : n.depth <= 2 /\ n.entries # <<>>)
    ELSE <<>>

\* The entries step 3 puts into east_tmp or west_tmp
TaggedEntries(all, conf) ==
    SelectSeq(all, LAMBDA e :
        LET lname == Lower(TeamOf(e).group)
        IN  IF conf = sEast THEN Contains(lname, sEast)
            ELSE ~Contains(lname, sEast) /\ Contains(lname, sWest))

\* The split with the West slice one row early, rows_all[14:29]
PositionalSplitOverlap(rows_all, er, wr) ==
    IF Len(rows_all) >= SplitMin
    THEN <<SubSeq(rows_all, 1, HalfSize), SubSeq(rows_all, HalfSize, SplitMin - 1)>>
    ELSE <<er, wr>>

\* Lines 215-217
PositionalSplit(rows_all, er, wr) ==
    IF Len(rows_all) >= SplitMin
    THEN <<SubSeq(rows_all, 1, HalfSize), SubSeq(rows_all, HalfSize + 1, SplitMin)>>
    ELSE <<er, wr>>

\* What one HTTP request through SESSION comes to: status 200, a status of
\* the status_forcelist (429, 500, 502, 503, 504), another error status
\* (such as 404), a connect or read error.
Outcomes == {"ok", "forced", "other", "error"}

Retried == {"forced", "error"}

\* A retry budget that allows one request more
ExhaustedLate(left) == left < -1

\* Retry.is_exhausted after an increment: a counter fell below zero
Exhausted(left) == left < 0

\* The position maps of yesterday: none (the request failed, the page had
\* no tables) or teams 1 to 4 at ranks 4 to 1 in both conferences.
PrevChoices ==
    { [east |-> [k \in {} |-> 0], west |-> [k \in {} |-> 0]],
      [east |-> [k \in {norm_team_key(TeamName(t)) : t \in 1..4} |->
                    CHOOSE r \in 1..4 : k = norm_team_key(TeamName(5 - r))],
       west |-> [k \in {norm_team_key(TeamName(t)) : t \in 1..4} |->
                    CHOOSE r \in 1..4 : k = norm_team_key(TeamName(5 - r))]] }

NoPrev == [east |-> [k \in {} |-> 0], west |-> [k \in {} |-> 0]]

InitRun ==
    /\ pc = "get"
    /\ cand = 1
    /\ total = RetryTotal
    /\ data = None
    /\ idx = 0
    /\ east_rows = <<>>
    /\ west_rows = <<>>
    /\ prev = NoPrev
    /\ east = <<>>
    /\ west = <<>>
    /\ msg = None
    /\ creds = None
    /\ post_calls = 0
    /\ posts = 0
    /\ sent = "no"
    /\ out = FALSE
    /\ got_data = FALSE
    /\ exit_code = None

Nodes == _gather_standings_nodes(data[1])

\* _get_json returns a document: lines 129-131 and 136-140
GetData ==
    /\ pc = "get"
    /\ \E d \in Docs : data' = Some(d)
    /\ got_data' = TRUE
    /\ pc' = "step1"
    /\ idx' = 1
    /\ cand' = 0
    /\ UNCHANGED <<total, east_rows, west_rows, prev, east, west, msg, creds,
                   post_calls, posts, sent, out, exit_code>>
    /\ UNCHANGED <<varsRank, varsRetry>>

\* _get_json returns {}: an empty answer, a status other than 200 (after
\* the retries of the adapter), an exception; then the next candidate, or
\* lines 132-133
GetNoData ==
    /\ pc = "get"
    /\ IF cand < NumCandidates
       THEN /\ cand' = cand + 1
            /\ pc' = "get"
       ELSE /\ cand' = 0
            /\ pc' = "bbr"
    /\ UNCHANGED <<total, data, idx, east_rows, west_rows, prev, east, west, msg,
                   creds, post_calls, posts, sent, out, got_data, exit_code>>
    /\ UNCHANGED <<varsRank, varsRetry>>

\* Lines 153-158, one node
Step1Push ==
    /\ pc = "step1"
    /\ idx <= Len(Nodes)
    /\ LET n == Nodes[idx]
           r == push_by_name(Step1Name(n), n.entries, east_rows, west_rows)
       IN  /\ east_rows' = r[1]
           /\ west_rows' = r[2]
    /\ idx' = idx + 1
    /\ UNCHANGED <<pc, cand, total, data, prev, east, west, msg, creds,
                   post_calls, posts, sent, out, got_data, exit_code>>
    /\ UNCHANGED <<varsRank, varsRetry>>

\* The end of the loop of step 1 and the condition of line 161
Step1Done ==
    /\ pc = "step1"
    /\ idx > Len(Nodes)
    /\ pc' = IF (east_rows = <<>> \/ west_rows = <<>>) /\ data[1].children
             THEN "step2" ELSE "step3"
    /\ idx' = 1
    /\ UNCHANGED <<cand, total, data, east_rows, west_rows, prev, east, west,
                   msg, creds, post_calls, posts, sent, out, got_data, exit_code>>
    /\ UNCHANGED <<varsRank, varsRetry>>

\* Lines 162-173, one child or grandchild
Step2Push ==
    /\ pc = "step2"
    /\ idx <= Len(Step2Nodes(data[1]))
    /\ LET n == Step2Nodes(data[1])[idx]
           r == push_by_name(n.name, n.entries, east_rows, west_rows)
       IN  /\ east_rows' = r[1]
           /\ west_rows' = r[2]
    /\ idx' = idx + 1
    /\ UNCHANGED <<pc, cand, total, data, prev, east, west, msg, creds,
                   post_calls, posts, sent, out, got_data, exit_code>>
    /\ UNCHANGED <<varsRank, varsRetry>>

Step2Done ==
    /\ pc = "step2"
    /\ idx > Len(Step2Nodes(data[1]))
    /\ pc' = "step3"
    /\ idx' = 1
    /\ UNCHANGED <<cand, total, data, east_rows, west_rows, prev, east, west,
                   msg, creds, post_calls, posts, sent, out, got_data, exit_code>>
    /\ UNCHANGED <<varsRank, varsRetry>>

\* Lines 177-204
Step3 ==
    /\ pc = "step3"
    /\ LET all      == AllEntries(Nodes)
           east_tmp == TaggedEntries(all, sEast)
           west_tmp == TaggedEntries(all, sWest)
           run      == east_rows = <<>> \/ west_rows = <<>>
       IN  /\ east_rows' = IF run /\ east_tmp # <<>> /\ east_rows = <<>>
                           THEN _entries_to_rows(east_tmp) ELSE east_rows
           /\ west_rows' = IF run /\ west_tmp # <<>> /\ west_rows = <<>>
                           THEN _entries_to_rows(west_tmp) ELSE west_rows
    /\ pc' = "step4"
    /\ UNCHANGED <<cand, total, data, idx, prev, east, west, msg, creds,
                   post_calls, posts, sent, out, got_data, exit_code>>
    /\ UNCHANGED <<varsRank, varsRetry>>

\* Lines 208-219
Step4 ==
    /\ pc = "step4"
    /\ LET r == IF east_rows = <<>> \/ west_rows = <<>>
                THEN PositionalSplit(_entries_to_rows(AllEntries(Nodes)),
                                     east_rows, west_rows)
                ELSE <<east_rows, west_rows>>
       IN  /\ east_rows' = r[1]
           /\ west_rows' = r[2]
    /\ pc' = "bbr"
    /\ UNCHANGED <<cand, total, data, idx, prev, east, west, msg, creds,
                   post_calls, posts, sent, out, got_data, exit_code>>
    /\ UNCHANGED <<varsRank, varsRetry>>

\* Line 292; the locals of fetch_espn_standings_json are gone
FetchBbr ==
    /\ pc = "bbr"
    /\ prev' \in PrevChoices
    /\ data' = None
    /\ idx' = 0
    /\ pc' = "trend"
    /\ UNCHANGED <<cand, total, east_rows, west_rows, east, west, msg, creds,
                   post_calls, posts, sent, out, got_data, exit_code>>
    /\ UNCHANGED <<varsRank, varsRetry>>

\* Lines 293-294
AttachTrendRun ==
    /\ pc = "trend"
    /\ east' = attach_trend(east_rows, prev.east)
    /\ west' = attach_trend(west_rows, prev.west)
    /\ pc' = "fmt"
    /\ UNCHANGED <<cand, total, data, idx, east_rows, west_rows, prev, msg,
                   creds, post_calls, posts, sent, out, got_data, exit_code>>
    /\ UNCHANGED <<varsRank, varsRetry>>

\* Lines 296-300
BuildMessage ==
    /\ pc = "fmt"
    /\ msg' = Some([east |-> fmt_table(east), west |-> fmt_table(west)])
    /\ pc' = "send"
    /\ UNCHANGED <<cand, total, data, idx, east_rows, west_rows, prev, east,
                   west, creds, post_calls, posts, sent, out, got_data, exit_code>>
    /\ UNCHANGED <<varsRank, varsRetry>>

\* Lines 303-305, then 318: without credentials nothing is sent
SendSkipped ==
    /\ pc = "send"
    /\ creds = None
    /\ creds' = Some(FALSE)
    /\ sent' = "skipped"
    /\ out' = TRUE
    /\ exit_code' = Some(0)
    /\ pc' = "exit"
    /\ UNCHANGED <<cand, total, data, idx, east_rows, west_rows, prev, east,
                   west, msg, post_calls, posts, got_data>>
    /\ UNCHANGED <<varsRank, varsRetry>>

\* SESSION.post is called once; every request of it counts
PostCalls == IF posts = 0 THEN post_calls + 1 ELSE post_calls

\* A sendMessage request fails in a way the adapter retries: POST is among
\* the allowed_methods
PostRetry ==
    /\ pc = "send"
    /\ creds # Some(FALSE)
    /\ creds' = Some(TRUE)
    /\ \E o \in Retried : ~Exhausted(total - 1)
    /\ total' = total - 1
    /\ posts' = posts + 1
    /\ post_calls' = PostCalls
    /\ UNCHANGED <<pc, cand, data, idx, east_rows, west_rows, prev, east, west,
                   msg, sent, out, got_data, exit_code>>
    /\ UNCHANGED <<varsRank, varsRetry>>

\* Status 200: raise_for_status passes, "OK", exit code 0
PostOk ==
    /\ pc = "send"
    /\ creds # Some(FALSE)
    /\ creds' = Some(TRUE)
    /\ posts' = posts + 1
    /\ post_calls' = PostCalls
    /\ sent' = "ok"
    /\ out' = TRUE
    /\ exit_code' = Some(0)
    /\ total' = RetryTotal
    /\ pc' = "exit"
    /\ UNCHANGED <<cand, data, idx, east_rows, west_rows, prev, east, west,
                   msg, got_data>>
    /\ UNCHANGED <<varsRank, varsRetry>>

\* The request fails for good: an error status the adapter hands back
\* (raise_for_status raises) or the retries used up; lines 319-321
PostFails ==
    /\ pc = "send"
    /\ creds # Some(FALSE)
    /\ creds' = Some(TRUE)
    /\ \E o \in Outcomes \ {"ok"} : o \in Retried => Exhausted(total - 1)
    /\ posts' = posts + 1
    /\ post_calls' = PostCalls
    /\ sent' = "failed"
    /\ exit_code' = Some(1)
    /\ total' = RetryTotal
    /\ pc' = "exit"
    /\ UNCHANGED <<cand, data, idx, east_rows, west_rows, prev, east, west,
                   msg, out, got_data>>
    /\ UNCHANGED <<varsRank, varsRetry>>

NextRun ==
    \/ GetData
    \/ GetNoData
    \/ Step1Push
    \/ Step1Done
    \/ Step2Push
    \/ Step2Done
    \/ Step3
    \/ Step4
    \/ FetchBbr
    \/ AttachTrendRun
    \/ BuildMessage
    \/ SendSkipped
    \/ PostRetry
    \/ PostOk
    \/ PostFails


\* ------------------------------------------------------------------------
\* The bounded fetch retry: fetch_standings_with_retry and main of
\* standings_bot.py, and the loop of nba_selftest.py
\* ------------------------------------------------------------------------

\* fetch_standings_with_retry(retries=4, pause=3)
Retries == 4

Pause == 3

\* for i in range(1, 5), time.sleep(3)
SelftestRetries == 4

SelftestPause == 3

RetriesOf(p) == IF p = "standings_bot" THEN Retries ELSE SelftestRetries

PauseOf(p) == IF p = "standings_bot" THEN Pause ELSE SelftestPause

\* except (HTTPError, ReadTimeout, ReqConnError)
Transient == {"HTTPError", "ReadTimeout", "ConnectionError"}

\* An exception object: its class and the attempt that raised it
Err(kind, at) == [kind |-> kind, at |-> at]

Envs == [token : BOOLEAN, chat : BOOLEAN, channel : BOOLEAN, dry : BOOLEAN]

InitRetry ==
    /\ prog \in {"standings_bot", "selftest"}
    /\ qpc = "main"
    /\ env \in IF prog = "standings_bot" THEN Envs
               ELSE {[token |-> TRUE, chat |-> TRUE, channel |-> TRUE, dry |-> FALSE]}
    /\ i = 0
    /\ last_err = None
    /\ log = <<>>
    /\ pauses = <<>>
    /\ sends = 0
    /\ reported = None
    /\ status = None

\* main, lines 73-80: a missing or malformed credential ends the run
BadEnv ==
    /\ qpc = "main"
    /\ prog = "standings_bot"
    /\ ~(env.token /\ env.chat /\ env.channel)
    /\ qpc' = "done"
    /\ status' = Some(1)
    /\ UNCHANGED <<prog, env, i, last_err, log, pauses, sends, reported>>
    /\ UNCHANGED <<varsRank, varsRun>>

\* nba_selftest.py, lines 5-9: nba_api cannot be imported
ImportFails ==
    /\ qpc = "main"
    /\ prog = "selftest"
    /\ qpc' = "done"
    /\ status' = Some(1)
    /\ UNCHANGED <<prog, env, i, last_err, log, pauses, sends, reported>>
    /\ UNCHANGED <<varsRank, varsRun>>

\* main, lines 82-83, and the start of the self-test loop
StartFetch ==
    /\ qpc = "main"
    /\ env.token /\ env.chat /\ env.channel
    /\ qpc' = "fetch"
    /\ i' = 1
    /\ UNCHANGED <<prog, env, last_err, log, pauses, sends, reported, status>>
    /\ UNCHANGED <<varsRank, varsRun>>

\* The attempt succeeds: return df, or sys.exit(0) in the self-test
AttemptOk ==
    /\ qpc = "fetch"
    /\ log' = Append(log, "ok")
    /\ IF prog = "standings_bot"
       THEN /\ qpc' = "message"
            /\ status' = status
       ELSE /\ qpc' = "done"
            /\ status' = Some(0)
    /\ UNCHANGED <<prog, env, i, last_err, pauses, sends, reported>>
    /\ UNCHANGED <<varsRank, varsRun>>

\* except (HTTPError, ReadTimeout, ReqConnError): last_err = e
AttemptTransient ==
    /\ qpc = "fetch"
    /\ \E kind \in Transient :
        /\ last_err' = Some(Err(kind, i))
        /\ log' = Append(log, kind)
    /\ qpc' = "sleep"
    /\ UNCHANGED <<prog, env, i, pauses, sends, reported, status>>
    /\ UNCHANGED <<varsRank, varsRun>>

\* A loop over range(1, retries + 2)
MoreAttemptsOneMore(p, n) == n < RetriesOf(p) + 1

\* range(1, retries + 1) has a value behind n
MoreAttempts(p, n) == n < RetriesOf(p)

\* time.sleep(pause), then the next value of the range or the end of the loop
Sleep ==
    /\ qpc = "sleep"
    /\ pauses' = Append(pauses, PauseOf(prog))
    /\ IF MoreAttempts(prog, i)
       THEN /\ i' = i + 1
            /\ qpc' = "fetch"
       ELSE /\ i' = i
            /\ qpc' = "giveup"
    /\ UNCHANGED <<prog, env, last_err, log, sends, reported, status>>
    /\ UNCHANGED <<varsRank, varsRun>>

\* except Exception: last_err = e; break
AttemptUnexpected ==
    /\ qpc = "fetch"
    /\ last_err' = Some(Err("Exception", i))
    /\ log' = Append(log, "Exception")
    /\ qpc' = "giveup"
    /\ UNCHANGED <<prog, env, i, pauses, sends, reported, status>>
    /\ UNCHANGED <<varsRank, varsRun>>

\* raise SystemExit(f"... {last_err}"), or the last two lines of the self-test
GiveUp ==
    /\ qpc = "giveup"
    /\ reported' = last_err
    /\ status' = Some(1)
    /\ qpc' = "done"
    /\ UNCHANGED <<prog, env, i, last_err, log, pauses, sends>>
    /\ UNCHANGED <<varsRank, varsRun>>

\* main, lines 85-90: build_message raises (a conference without rows), or
\* the dry run ends here, or the message goes on to be sent
Message ==
    /\ qpc = "message"
    /\ \E built \in BOOLEAN :
        IF ~built
        THEN /\ qpc' = "done"
             /\ status' = Some(1)
        ELSE IF env.dry
        THEN /\ qpc' = "done"
             /\ status' = Some(0)
        ELSE /\ qpc' = "send"
             /\ status' = status
    /\ UNCHANGED <<prog, env, i, last_err, log, pauses, sends, reported>>
    /\ UNCHANGED <<varsRank, varsRun>>

\* main, lines 92-103: one call of bot.send_message; Unauthorized and
\* BadRequest become SystemExit, any other exception is raised again
Send ==
    /\ qpc = "send"
    /\ sends' = sends + 1
    /\ \E ok \in BOOLEAN : status' = IF ok THEN Some(0) ELSE Some(1)
    /\ qpc' = "done"
    /\ UNCHANGED <<prog, env, i, last_err, log, pauses, reported>>
    /\ UNCHANGED <<varsRank, varsRun>>

NextRetry ==
    \/ BadEnv
    \/ ImportFails
    \/ StartFetch
    \/ AttemptOk
    \/ AttemptTransient
    \/ Sleep
    \/ AttemptUnexpected
    \/ GiveUp
    \/ Message
    \/ Send

\* ------------------------------------------------------------------------
\* The specifications
\* ------------------------------------------------------------------------

\* Each specification runs one part; the variables of the others rest.
RankIdle ==
    /\ rpc = "idle"
    /\ entries = <<>>
    /\ rows = <<>>
    /\ yesterday_positions = [k \in {} |-> 0]
    /\ ranked = <<>>
    /\ table = <<>>

RunIdle ==
    /\ pc = "idle"
    /\ cand = 0
    /\ total = RetryTotal
    /\ data = None
    /\ idx = 0
    /\ east_rows = <<>>
    /\ west_rows = <<>>
    /\ prev = NoPrev
    /\ east = <<>>
    /\ west = <<>>
    /\ msg = None
    /\ creds = None
    /\ post_calls = 0
    /\ posts = 0
    /\ sent = "no"
    /\ out = FALSE
    /\ got_data = FALSE
    /\ exit_code = None

RetryIdle ==
    /\ prog = "idle"
    /\ qpc = "idle"
    /\ env = [token |-> FALSE, chat |-> FALSE, channel |-> FALSE, dry |-> FALSE]
    /\ i = 0
    /\ last_err = None
    /\ log = <<>>
    /\ pauses = <<>>
    /\ sends = 0
    /\ reported = None
    /\ status = None

Init == InitRun /\ RankIdle /\ RetryIdle

Next == NextRun

\* The run of nba_standings_bot.py
Spec == Init /\ [][Next]_vars

InitRankOnly == InitRank /\ RunIdle /\ RetryIdle

\* The rank and trend engine on every list of at most MaxRows entries
SpecRank == InitRankOnly /\ [][NextRank]_vars

InitRetryOnly == InitRetry /\ RankIdle /\ RunIdle

\* The fetch retry of standings_bot.py and nba_selftest.py
SpecRetry == InitRetryOnly /\ [][NextRetry]_vars

\* ------------------------------------------------------------------------
\* Properties
\* ------------------------------------------------------------------------

StrLeq(a, b) == a = b \/ StrLess(a, b)

\* a may stand before b: the tie-break order of the ranking
Before(a, b) ==
    \/ FracLess(b.pct, a.pct)
    \/ FracEq(a.pct, b.pct) /\ a.w > b.w
    \/ FracEq(a.pct, b.pct) /\ a.w = b.w /\ StrLeq(a.team, b.team)

Ordered(seq) ==
    \A m, n \in 1..Len(seq) : m < n => Before(seq[m], seq[n])

Ids(seq) == {seq[m].id : m \in 1..Len(seq)}

DistinctIds(seq) == Cardinality(Ids(seq)) = Len(seq)

\* A row without what ranking adds to it
Core(r) == [id |-> r.id, team |-> r.team, abbr |-> r.abbr, w |-> r.w,
            l |-> r.l, pct |-> r.pct]

\* outp holds the rows of inp, each once
Permutation(inp, outp) ==
    /\ Len(outp) = Len(inp)
    /\ DistinctIds(outp)
    /\ \A m \in 1..Len(inp) : \E n \in 1..Len(outp) : Core(outp[n]) = Core(inp[m])

\* C1: the rows attach_trend returns carry the ranks 1, 2, ..., n in their
\* order, whatever ranks the rows carried before (the ranks 16..30 of the
\* West half of the positional split among them), for the empty list too.
C1_RanksContiguous ==
    pc \in {"fmt", "send", "exit"} =>
        /\ Len(east) = Len(east_rows)
        /\ Len(west) = Len(west_rows)
        /\ \A m \in 1..Len(east) : east[m].rank = m
        /\ \A m \in 1..Len(west) : west[m].rank = m

\* attach_trend has renumbered a West half that came with the ranks 16..30
C1_Witness ==
    /\ pc = "fmt"
    /\ Len(west) = HalfSize
    /\ \A m \in 1..HalfSize : west_rows[m].rank = HalfSize + m
    /\ west[HalfSize].rank = HalfSize
    /\ east_rows[1].rank = 1

\* C2 as amended: the delta of a row is None when norm_team_key of the
\* team's display name is no key of the baseline map, and baseline rank
\* minus current rank when it is.
C2_DeltaByNormalizedName ==
    rpc \in {"ranked", "table"} =>
        \A m \in 1..Len(ranked) :
            LET key == norm_team_key(ranked[m].team)
            IN  IF key \in DOMAIN yesterday_positions
                THEN ranked[m].delta_places =
                         Some(yesterday_positions[key] - ranked[m].rank)
                ELSE ranked[m].delta_places = None

\* "Bos" first with +1, "Ny K" second with -1 against a baseline that has
\* them at 2 and 1, and a third team the baseline does not know
C2_Witness ==
    /\ rpc = "ranked"
    /\ Len(ranked) = 3
    /\ ranked[1].team = sBos /\ ranked[1].delta_places = Some(1)
    /\ ranked[2].team = sNyK /\ ranked[2].delta_places = Some(-1)
    /\ ranked[3].delta_places = None
    /\ yesterday_positions[norm_team_key(sBos)] = 2

\* C2 as stated: the delta of a row is None when the team's abbreviation is
\* no key of the baseline map, and baseline rank minus current rank when it
\* is.
C2_DeltaByAbbreviation ==
    rpc \in {"ranked", "table"} =>
        \A m \in 1..Len(ranked) :
            IF ranked[m].abbr \in DOMAIN yesterday_positions
            THEN ranked[m].delta_places =
                     Some(yesterday_positions[ranked[m].abbr] - ranked[m].rank)
            ELSE ranked[m].delta_places = None

\* C3: the rows _entries_to_rows and attach_trend return are in the order
\* pct descending, then wins descending, then display name ascending, and
\* are the rows given, each once.
C3_SortedPermutation ==
    /\ rpc \in {"rows", "ranked", "table"} =>
          /\ Ordered(rows)
          /\ Len(rows) = Len(entries)
          /\ Ids(rows) = 1..Len(entries)
          /\ \A m \in 1..Len(rows) : rows[m].rank = m
    /\ rpc \in {"ranked", "table"} =>
          /\ Ordered(ranked)
          /\ Permutation(rows, ranked)

\* Three entries that came in another order: the first two of the result
\* tie on pct and differ in wins, the first entry given stands last
C3_Witness ==
    /\ rpc = "ranked"
    /\ Len(ranked) = 3
    /\ FracEq(ranked[1].pct, ranked[2].pct)
    /\ ranked[1].w > ranked[2].w
    /\ FracLess(ranked[3].pct, ranked[2].pct)
    /\ ranked[3].id = 1

\* C4: when no candidate URL answered with data, or the send failed, the
\* run ends with a non-zero exit code and without printing "OK".
C4_FailureExitsNonZero ==
    (pc = "exit" /\ (~got_data \/ sent = "failed")) =>
        (exit_code # Some(0) /\ ~out)

\* C5: the retry loop makes at most `retries` attempts; every transient
\* failure is followed by one pause of the fixed length; a success is the
\* last attempt; and a run that gives up ends with status 1 and reports the
\* exception of its last attempt, after `retries` transient failures or an
\* unexpected exception.  Until the process has ended a step is possible.
C5_RetryBounded ==
    LET n          == Len(log)
        transients == {m \in 1..n : log[m] \in Transient}
    IN  /\ n <= RetriesOf(prog)
        /\ \A m \in 1..n : log[m] \notin Transient => m = n
        /\ \A m \in 1..Len(pauses) : pauses[m] = PauseOf(prog)
        /\ Len(pauses) = Cardinality(transients) - (IF qpc = "sleep" THEN 1 ELSE 0)
        /\ (qpc = "fetch" => i = n + 1)
        /\ (n > 0 /\ log[n] # "ok") => last_err = Some(Err(log[n], n))
        /\ (qpc = "done" /\ n > 0 /\ log[n] # "ok") =>
              /\ status = Some(1)
              /\ reported = Some(Err(log[n], n))
              /\ (n = RetriesOf(prog) \/ log[n] = "Exception")
        /\ (qpc = "giveup" /\ log[n] \in Transient) => n = RetriesOf(prog)
        /\ (prog \in {"standings_bot", "selftest"} /\ qpc # "done") => ENABLED NextRetry

\* All attempts failed in a transient way, the last with another exception
\* than the one before, and the run gave up
C5_Witness ==
    /\ qpc = "done"
    /\ prog = "standings_bot"
    /\ Len(log) = Retries
    /\ Len(pauses) = Retries
    /\ log[Retries - 1] = "ReadTimeout"
    /\ reported = Some(Err("ConnectionError", Retries))
    /\ status = Some(1)

\* C6 as amended: send_telegram calls SESSION.post at most once, and that
\* call puts at most 1 + 6 requests on the wire (the adapter retries a POST
\* on connect and read errors and on 429/5xx); a send that failed ends the
\* run with exit code 1 and without "OK".
C6_OneCallBoundedRequests ==
    /\ post_calls <= 1
    /\ posts <= RetryTotal + 1
    /\ posts + total = RetryTotal + (IF pc = "send" THEN 0 ELSE posts)
    /\ sent = "failed" => (pc = "exit" /\ exit_code = Some(1) /\ ~out)
    /\ pc = "exit" => (sent # "no" /\ exit_code # None)

\* The first request and all six retries failed
C6_Witness ==
    /\ pc = "exit"
    /\ posts = RetryTotal + 1
    /\ post_calls = 1
    /\ sent = "failed"
    /\ exit_code = Some(1)

\* C6 as stated: at most one sendMessage request is issued in a run.
C6_AtMostOneRequest == posts <= 1

HasConf(str) == Contains(Lower(str), sEast) \/ Contains(Lower(str), sWest)

\* No node name, child name or team group of the document names a conference
Unresolvable(doc) ==
    \A k \in 1..Len(doc.nodes) :
        /\ ~HasConf(doc.nodes[k].name)
        /\ ~HasConf(doc.nodes[k].shortName)
        /\ \A m \in 1..Len(doc.nodes[k].entries) :
              ~HasConf(doc.nodes[k].entries[m].team[1].group)

EntryCount(doc) == Len(AllEntries(doc.nodes))

\* C7: of 30 entries without a resolvable conference name,
\* fetch_espn_standings_json returns the first 15 in ranking order as East
\* and the next 15 as West, no row in both; of fewer than 30, two empty
\* groups.
C7_PositionalSplit ==
    (pc = "bbr" /\ data # None /\ Unresolvable(data[1])) =>
        /\ EntryCount(data[1]) = SplitMin =>
              /\ Len(east_rows) = HalfSize
              /\ Len(west_rows) = HalfSize
              /\ Ids(east_rows) \cap Ids(west_rows) = {}
              /\ Ids(east_rows) \cup Ids(west_rows) = 1..SplitMin
              /\ Ordered(east_rows \o west_rows)
        /\ EntryCount(data[1]) < SplitMin =>
              /\ east_rows = <<>>
              /\ west_rows = <<>>

\* Thirty unnamed entries with different records, split
C7_Witness ==
    /\ pc = "bbr"
    /\ data # None
    /\ Unresolvable(data[1])
    /\ EntryCount(data[1]) = SplitMin
    /\ Len(west_rows) = HalfSize
    /\ FracLess(west_rows[1].pct, east_rows[1].pct)

\* C8: the glyph of an absent delta differs from the glyph of a zero delta;
\* a positive delta shows an up-arrow with its size, a negative one a
\* down-arrow with its absolute size.
C8_AbsentDistinctFromZero ==
    rpc = "table" =>
        \A m, n \in 1..Len(table) :
            /\ (ranked[m].delta_places = None /\ ranked[n].delta_places = Some(0))
                  => table[m].arrow # table[n].arrow
            /\ (ranked[m].delta_places # None /\ ranked[m].delta_places[1] > 0)
                  => table[m].arrow = <<"green-up+", ranked[m].delta_places[1]>>
            /\ (ranked[m].delta_places # None /\ ranked[m].delta_places[1] < 0)
                  => table[m].arrow = <<"red-down", -ranked[m].delta_places[1]>>

PartitionSteps == {"step1", "step2", "step3", "step4"}

KeepsResolved ==
    pc \in PartitionSteps =>
        /\ east_rows # <<>> => east_rows' = east_rows
        /\ west_rows # <<>> => west_rows' = west_rows

\* C9: while fetch_espn_standings_json partitions, a conference group that
\* is resolved is not replaced, neither by a later node of the same step
\* nor by a later step.
C9_ResolvedNeverReplaced == [][KeepsResolved]_vars

Complete(e) == e.team # None /\ e.stats # None /\ e.stats # Some(<<>>)

\* C10: _entries_to_rows never raises; it returns one row for every entry
\* that has a team object and stats and none for the others.
C10_SkipsIncompleteEntries ==
    /\ rpc # "raised"
    /\ rpc \in {"rows", "ranked", "table"} =>
          /\ Len(rows) = Cardinality({m \in 1..Len(entries) : Complete(entries[m])})
          /\ \A m \in 1..Len(rows) : Complete(entries[rows[m].id])

====
